---- MODULE Spec2Model ----
(***************************************************************************)
(* Model of package ptrguard (src/ptrguard.go): pinning of Go pointers by  *)
(* a parked goroutine, the standalone PinnedPtr handle, the Scope/Pinner   *)
(* group, and the escape-slot list (refsType) that is cleared on release.  *)
(*                                                                         *)
(* Program positions are named after the source line the goroutine is at.  *)
(***************************************************************************)
EXTENDS Integers, Sequences, FiniteSets, TLC

\* ------------------------------------------------------------------ bounds
NumHandles == 2   \* standalone PinnedPtr values alive at the same time
NumPins == 2      \* Pinner.Pin calls per scope
NumSlots == 2     \* foreign (C) memory cells
NumAddrs == 2     \* distinct Go addresses
MaxRefs == 2      \* cap on the slots recorded in all refs lists together
NumCallers == 2   \* goroutines calling NoCheck
MaxCheck == 2     \* *cgocheck is 0..MaxCheck at program start

Handles == 1..NumHandles
Pins == 1..NumPins
Slots == 1..NumSlots
Addrs == 1..NumAddrs
Callers == 1..NumCallers
Checks == 0..MaxCheck

\* the zero uintptr / nil pointer
null == 0

\* GODEBUG=cgocheck=2, the setting the package's tests ask for.
GodebugCgocheck == 2

VARIABLES
    \* ---- foreign memory
    mem,        \* mem[s]: content of the C cell s (null or an address)
    \* ---- PinnedPtr (one per handle index)
    hpc,        \* position of the goroutine using the handle
    arg,        \* Pin's parameter ptr, captured by the worker closure
    ptr,        \* PinnedPtr.ptr
    release,    \* PinnedPtr.release  (TRUE = locked)
    pinned,     \* PinnedPtr.pinned   (TRUE = locked)
    refs,       \* PinnedPtr.refsType.refs
    finished,   \* PinnedPtr.finishedType.finished
    wpc,        \* position of the goroutine started by Pin
    hres,       \* [op, res]: how the last call on the handle ended
    \* ---- Scope / pinnerData
    spc,        \* position of the goroutine running Scope
    gw,         \* pinnerData.release: write-locked
    gr,         \* pinnerData.release: number of read locks held
    wg,         \* pinnerData.wg counter
    grefs,      \* pinnerData.refsType.refs
    gfinished,  \* pinnerData.finishedType.finished
    \* ---- Pinner.Pin calls (one per pin index)
    cpc,        \* position of the goroutine calling Pinner.Pin
    sarg,       \* Pinner.Pin's parameter ptr
    sptr,       \* ScopedPinnedPtr.ptr
    spinned,    \* the local mutex "pinned" of Pinner.Pin (TRUE = locked)
    swpc,       \* position of the goroutine started by Pinner.Pin
    cres,       \* [op, res]: how the last call of this caller ended
    \* ---- ScopedPinnedPtr.Poke calls that run beside the scope's goroutine
    ptarget,    \* Poke's parameter target between lines 117 and 118, or null
    \* ---- history (not program state)
    zeroed,     \* [kind, id, slots]: the clear() of the client's latest call
    gby,        \* gby[k]: the Pinner.Pin call whose Poke recorded grefs[k]
    \* ---- NoCheck
    cgocheck,   \* the runtime's debug variable *cgocheck
    npc,        \* npc[c]: position of the goroutine c calling NoCheck
    cgocheckOld, \* cgocheckOld[c]: NoCheck's local variable
    \* ---- the process and its calls on zero values and finished groups
    alive,      \* FALSE once the runtime has thrown a fatal error
    zres,       \* [op, res]: how the last call on a zero value ended
    ures,       \* [op, res]: how the last call of pinnerData.unpin ended
    \* ---- history (not program state)
    orig,       \* the value of *cgocheck at program start
    overlapped, \* overlapped[c]: another NoCheck ran during c's latest one
    before,     \* before[c]: *cgocheck right before c's latest NoCheck
    \* ---- destruction of handles and the leak-detection hook
    life,       \* life[h]: "held" by its owner, "discarded", or "finalized"
    fired       \* fired[h]: how often the hook fired for the handle

hvars == <<hpc, arg, ptr, release, pinned, refs, finished, wpc, hres>>
svars == <<spc, gw, gr, wg, grefs, gfinished, cpc, sarg, sptr, spinned, swpc, cres>>
ghost == <<zeroed, gby>>
nvars == <<cgocheck, npc, cgocheckOld, alive, zres, ures>>
nhist == <<orig, overlapped, before>>
lvars == <<life, fired>>
pvars == <<ptarget>>
other == <<nvars, nhist, lvars, pvars>>
vars == <<mem, hvars, svars, ghost, other>>

\* ----------------------------------------------------------- pure helpers

\* errors.New("access to invalid PtrGuard context")
ErrInvalidPinner == "ErrInvalidPinner"

\* how a call ended: "ok" (it returned) or the value it panicked with
Result(op, res) == [op |-> op, res |-> res]

\* Faulty variant of check: it never panics.
checkAlways(fin) == TRUE

\* finishedType.check: TRUE when the call goes on, FALSE when it panics
check(fin) == ~fin

\* refsType.poke, the list part: v.refs = append(v.refs, uip)
pokeRefs(r, target) == Append(r, target)

\* Faulty variant of pokeMem: the slot is recorded but never written.
pokeMemSkip(m, p, target) == m

\* refsType.poke, the memory part: *uip = ptr
pokeMem(m, p, target) == [m EXCEPT ![target] = p]

\* Faulty variant of clearMem: only the first recorded slot is zeroed.
clearMemFirst(r, m) ==
    [s \in DOMAIN m |-> IF Len(r) > 0 /\ r[1] = s THEN null ELSE m[s]]

\* refsType.clear, the memory part: *v.refs[i] = 0 for every i
clearMem(r, m) ==
    [s \in DOMAIN m |-> IF \E i \in 1..Len(r) : r[i] = s THEN null ELSE m[s]]

\* Faulty variant of clearRefs: one record per slot is dropped, so that a
\* slot recorded twice stays on the list.
clearRefsPerSlot(r) ==
    LET rest[k \in 0..Len(r)] ==
            IF k = 0 THEN <<>>
            ELSE IF \E j \in 1..(k - 1) : r[j] = r[k]
                 THEN Append(rest[k - 1], r[k])
                 ELSE rest[k - 1]
    IN rest[Len(r)]

\* refsType.clear, the list part: v.refs = nil
clearRefs(r) == <<>>

\* history record of one run of clear()
Zeroed(kind, id, r) ==
    [kind |-> kind, id |-> id, slots |-> {r[k] : k \in 1..Len(r)}, records |-> Len(r)]

\* the slots a refs list records
Range(r) == {r[k] : k \in 1..Len(r)}

\* ---------------------------------------------------------------- Init

InitPinning ==
    /\ mem = [s \in Slots |-> null]
    /\ hpc = [h \in Handles |-> "absent"]
    /\ arg = [h \in Handles |-> null]
    /\ ptr = [h \in Handles |-> null]
    /\ release = [h \in Handles |-> FALSE]
    /\ pinned = [h \in Handles |-> FALSE]
    /\ refs = [h \in Handles |-> <<>>]
    /\ finished = [h \in Handles |-> FALSE]
    /\ wpc = [h \in Handles |-> "none"]
    /\ hres = [h \in Handles |-> Result("none", "none")]
    /\ spc = "none"
    /\ gw = FALSE
    /\ gr = 0
    /\ wg = 0
    /\ grefs = <<>>
    /\ gfinished = FALSE
    /\ cpc = [i \in Pins |-> "none"]
    /\ sarg = [i \in Pins |-> null]
    /\ sptr = [i \in Pins |-> null]
    /\ spinned = [i \in Pins |-> FALSE]
    /\ swpc = [i \in Pins |-> "none"]
    /\ cres = [i \in Pins |-> Result("none", "none")]
    /\ ptarget = [i \in Pins |-> null]
    /\ zeroed = Zeroed("none", 0, <<>>)
    /\ gby = <<>>
    /\ npc = [c \in Callers |-> "idle"]
    /\ cgocheckOld = [c \in Callers |-> 0]
    /\ alive = TRUE
    /\ zres = Result("none", "none")
    /\ ures = Result("none", "none")
    /\ overlapped = [c \in Callers |-> FALSE]
    /\ before = [c \in Callers |-> 0]
    /\ life = [h \in Handles |-> "held"]
    /\ fired = [h \in Handles |-> 0]

\* The program started the way the package's tests ask for.
Init ==
    /\ InitPinning
    /\ cgocheck = GodebugCgocheck
    /\ orig = GodebugCgocheck

\* The program started with any GODEBUG=cgocheck=<n> setting.
InitAnyCgocheck ==
    /\ InitPinning
    /\ cgocheck \in Checks
    /\ orig = cgocheck

\* ------------------------------------------------- standalone PinnedPtr

\* Number of slots recorded in the refs lists of the handles 1..n and of
\* the scope; the Poke actions stop recording at MaxRefs.
RECURSIVE RefsInUse(_)
RefsInUse(n) == IF n = 0 THEN Len(grefs) ELSE Len(refs[n]) + RefsInUse(n - 1)

\* The handle index h holds no live PinnedPtr: never used, or its previous
\* PinnedPtr was unpinned and its goroutine is gone.
Vacant(h) ==
    \/ hpc[h] = "absent"
    \/ hpc[h] = "idle" /\ finished[h] /\ wpc[h] = "exit"

\* Faulty variant of Pin: p.release.Lock() of line 33 is missing.
PinNoReleaseLock(h, a) ==
    /\ Vacant(h)
    /\ hpc' = [hpc EXCEPT ![h] = "pin43"]
    /\ arg' = [arg EXCEPT ![h] = a]
    /\ ptr' = [ptr EXCEPT ![h] = null]
    /\ release' = [release EXCEPT ![h] = FALSE]
    /\ pinned' = [pinned EXCEPT ![h] = TRUE]
    /\ refs' = [refs EXCEPT ![h] = <<>>]
    /\ finished' = [finished EXCEPT ![h] = FALSE]
    /\ wpc' = [wpc EXCEPT ![h] = "go"]
    /\ hres' = [hres EXCEPT ![h] = Result("none", "none")]
    /\ UNCHANGED <<mem, svars>>

\* Pin, lines 32-42: a fresh PinnedPtr, both mutexes locked, the goroutine
\* started; the caller is then at line 43.
Pin(h, a) ==
    /\ Vacant(h)
    /\ hpc' = [hpc EXCEPT ![h] = "pin43"]
    /\ arg' = [arg EXCEPT ![h] = a]
    /\ ptr' = [ptr EXCEPT ![h] = null]
    /\ release' = [release EXCEPT ![h] = TRUE]
    /\ pinned' = [pinned EXCEPT ![h] = TRUE]
    /\ refs' = [refs EXCEPT ![h] = <<>>]
    /\ finished' = [finished EXCEPT ![h] = FALSE]
    /\ wpc' = [wpc EXCEPT ![h] = "go"]
    /\ hres' = [hres EXCEPT ![h] = Result("none", "none")]
    /\ UNCHANGED <<mem, svars>>

\* Faulty variant of PinReturn: Pin returns without waiting at line 43.
PinReturnNoWait(h) ==
    /\ hpc[h] = "pin43"
    /\ pinned' = [pinned EXCEPT ![h] = TRUE]
    /\ ptr' = [ptr EXCEPT ![h] = arg[h]]
    /\ hpc' = [hpc EXCEPT ![h] = "idle"]
    /\ hres' = [hres EXCEPT ![h] = Result("Pin", "ok")]
    /\ UNCHANGED <<mem, arg, release, refs, finished, wpc, svars>>

\* Pin, lines 43-45: p.pinned.Lock() waits for the "pinned" signal, then
\* p.ptr is set and Pin returns.
PinReturn(h) ==
    /\ hpc[h] = "pin43"
    /\ ~pinned[h]
    /\ pinned' = [pinned EXCEPT ![h] = TRUE]
    /\ ptr' = [ptr EXCEPT ![h] = arg[h]]
    /\ hpc' = [hpc EXCEPT ![h] = "idle"]
    /\ hres' = [hres EXCEPT ![h] = Result("Pin", "ok")]
    /\ UNCHANGED <<mem, arg, release, refs, finished, wpc, svars>>

\* The goroutine of line 39 is scheduled and calls pinUntilRelease with
\* uintptr(ptr): from here the address is an argument of the call.
WorkerEnter(h) ==
    /\ wpc[h] = "go"
    /\ wpc' = [wpc EXCEPT ![h] = "in201"]
    /\ UNCHANGED <<mem, hpc, arg, ptr, release, pinned, refs, finished, hres, svars>>

\* A pinUntilRelease that goes on to wait for the release without giving
\* the "pinned" signal.
WorkerPinnedNoSignal(h) ==
    /\ wpc[h] = "in201"
    /\ pinned[h]
    /\ wpc' = [wpc EXCEPT ![h] = "in202"]
    /\ UNCHANGED <<mem, hpc, arg, ptr, release, pinned, refs, finished, hres, svars>>

\* pinUntilRelease, line 201: pinned.Unlock(), the "pinned" signal.
WorkerPinned(h) ==
    /\ wpc[h] = "in201"
    /\ pinned[h]
    /\ pinned' = [pinned EXCEPT ![h] = FALSE]
    /\ wpc' = [wpc EXCEPT ![h] = "in202"]
    /\ UNCHANGED <<mem, hpc, arg, ptr, release, refs, finished, hres, svars>>

\* Faulty variant of WorkerRelease: one release per address, so that the
\* worker leaves as soon as any handle of its address is released.
WorkerReleaseSameAddress(h) ==
    /\ wpc[h] = "in202"
    /\ \E k \in Handles : arg[k] = arg[h] /\ ~release[k] /\ hpc[k] # "absent"
    /\ release' = [release EXCEPT ![h] = TRUE]
    /\ wpc' = [wpc EXCEPT ![h] = "ret41"]
    /\ UNCHANGED <<mem, hpc, arg, ptr, pinned, refs, finished, hres, svars>>

\* pinUntilRelease, line 202: release.Lock() succeeds once Unpin has
\* unlocked it; the function returns and the address is no longer held.
WorkerRelease(h) ==
    /\ wpc[h] = "in202"
    /\ ~release[h]
    /\ release' = [release EXCEPT ![h] = TRUE]
    /\ wpc' = [wpc EXCEPT ![h] = "ret41"]
    /\ UNCHANGED <<mem, hpc, arg, ptr, pinned, refs, finished, hres, svars>>

\* Pin's goroutine, line 41: p.pinned.Unlock(), the "released" signal.
WorkerDone(h) ==
    /\ wpc[h] = "ret41"
    /\ pinned[h]
    /\ pinned' = [pinned EXCEPT ![h] = FALSE]
    /\ wpc' = [wpc EXCEPT ![h] = "exit"]
    /\ UNCHANGED <<mem, hpc, arg, ptr, release, refs, finished, hres, svars>>

\* Faulty variant of Poke: p.check() of line 51 is missing.
PokeNoCheck(h, s) ==
    /\ hpc[h] = "idle"
    /\ RefsInUse(NumHandles) < MaxRefs
    /\ refs' = [refs EXCEPT ![h] = pokeRefs(refs[h], s)]
    /\ mem' = pokeMem(mem, ptr[h], s)
    /\ hres' = [hres EXCEPT ![h] = Result("Poke", "ok")]
    /\ UNCHANGED <<hpc, arg, ptr, release, pinned, finished, wpc, svars>>

\* Faulty variant of Poke: the address is stored before p.check() runs.
PokeStoreFirst(h, s) ==
    /\ hpc[h] = "idle"
    /\ mem' = pokeMem(mem, ptr[h], s)
    /\ IF check(finished[h])
       THEN /\ RefsInUse(NumHandles) < MaxRefs
            /\ refs' = [refs EXCEPT ![h] = pokeRefs(refs[h], s)]
            /\ hres' = [hres EXCEPT ![h] = Result("Poke", "ok")]
       ELSE /\ hres' = [hres EXCEPT ![h] = Result("Poke", ErrInvalidPinner)]
            /\ UNCHANGED refs
    /\ UNCHANGED <<hpc, arg, ptr, release, pinned, finished, wpc, svars>>

\* PinnedPtr.Poke, lines 50-54: check(), then poke(p.ptr, target).
Poke(h, s) ==
    /\ hpc[h] = "idle"
    /\ IF check(finished[h])
       THEN /\ RefsInUse(NumHandles) < MaxRefs
            /\ refs' = [refs EXCEPT ![h] = pokeRefs(refs[h], s)]
            /\ mem' = pokeMem(mem, ptr[h], s)
            /\ hres' = [hres EXCEPT ![h] = Result("Poke", "ok")]
       ELSE /\ hres' = [hres EXCEPT ![h] = Result("Poke", ErrInvalidPinner)]
            /\ UNCHANGED <<mem, refs>>
    /\ UNCHANGED <<hpc, arg, ptr, release, pinned, finished, wpc, svars>>

\* Faulty variant of Unpin: finished is not set.
UnpinNoFinish(h) ==
    /\ hpc[h] = "idle"
    /\ IF check(finished[h])
       THEN /\ mem' = clearMem(refs[h], mem)
            /\ refs' = [refs EXCEPT ![h] = clearRefs(refs[h])]
            /\ hpc' = [hpc EXCEPT ![h] = "unpin62"]
            /\ UNCHANGED <<hres, finished>>
       ELSE /\ hres' = [hres EXCEPT ![h] = Result("Unpin", ErrInvalidPinner)]
            /\ UNCHANGED <<mem, refs, finished, hpc>>
    /\ UNCHANGED <<arg, ptr, release, pinned, wpc, svars>>

\* Faulty variant of Unpin: clear() is left out, the slots keep the address.
UnpinNoClear(h) ==
    /\ hpc[h] = "idle"
    /\ IF check(finished[h])
       THEN /\ finished' = [finished EXCEPT ![h] = TRUE]
            /\ hpc' = [hpc EXCEPT ![h] = "unpin62"]
            /\ UNCHANGED <<hres, mem, refs>>
       ELSE /\ hres' = [hres EXCEPT ![h] = Result("Unpin", ErrInvalidPinner)]
            /\ UNCHANGED <<mem, refs, finished, hpc>>
    /\ UNCHANGED <<arg, ptr, release, pinned, wpc, svars>>

\* PinnedPtr.Unpin, lines 59-61: check(), finished = true, p.clear(). The
\* call panics when the handle was unpinned before.
Unpin(h) ==
    /\ hpc[h] = "idle"
    /\ IF check(finished[h])
       THEN /\ finished' = [finished EXCEPT ![h] = TRUE]
            /\ mem' = clearMem(refs[h], mem)
            /\ refs' = [refs EXCEPT ![h] = clearRefs(refs[h])]
            /\ hpc' = [hpc EXCEPT ![h] = "unpin62"]
            /\ UNCHANGED hres
       ELSE /\ hres' = [hres EXCEPT ![h] = Result("Unpin", ErrInvalidPinner)]
            /\ UNCHANGED <<mem, refs, finished, hpc>>
    /\ UNCHANGED <<arg, ptr, release, pinned, wpc, svars>>

\* Faulty variant of UnpinSignal: the release lock of every handle is
\* unlocked.
UnpinSignalAll(h) ==
    /\ hpc[h] = "unpin62"
    /\ release[h]
    /\ release' = [k \in Handles |-> FALSE]
    /\ hpc' = [hpc EXCEPT ![h] = "unpin63"]
    /\ UNCHANGED <<mem, arg, ptr, pinned, refs, finished, wpc, hres, svars>>

\* PinnedPtr.Unpin, line 62: p.release.Unlock(), the "release" signal.
UnpinSignal(h) ==
    /\ hpc[h] = "unpin62"
    /\ release[h]
    /\ release' = [release EXCEPT ![h] = FALSE]
    /\ hpc' = [hpc EXCEPT ![h] = "unpin63"]
    /\ UNCHANGED <<mem, arg, ptr, pinned, refs, finished, wpc, hres, svars>>

\* Faulty variant of UnpinReturn: Unpin returns without waiting at line 63.
UnpinReturnNoWait(h) ==
    /\ hpc[h] = "unpin63"
    /\ pinned' = [pinned EXCEPT ![h] = TRUE]
    /\ hpc' = [hpc EXCEPT ![h] = "idle"]
    /\ hres' = [hres EXCEPT ![h] = Result("Unpin", "ok")]
    /\ UNCHANGED <<mem, arg, ptr, release, refs, finished, wpc, svars>>

\* PinnedPtr.Unpin, line 63: p.pinned.Lock() waits for the "released"
\* signal, then Unpin returns.
UnpinReturn(h) ==
    /\ hpc[h] = "unpin63"
    /\ ~pinned[h]
    /\ pinned' = [pinned EXCEPT ![h] = TRUE]
    /\ hpc' = [hpc EXCEPT ![h] = "idle"]
    /\ hres' = [hres EXCEPT ![h] = Result("Unpin", "ok")]
    /\ UNCHANGED <<mem, arg, ptr, release, refs, finished, wpc, svars>>

\* ------------------------------------------------------- Scope / Pinner

\* Faulty variant of Scope: pinner.release.Lock() of line 85 is missing.
ScopeNoLock ==
    /\ spc = "none"
    /\ spc' = "f"
    /\ UNCHANGED <<mem, hvars, gw, gr, wg, grefs, gfinished, cpc, sarg, sptr, spinned,
                   swpc, cres>>

\* Scope, lines 84-86: a fresh pinnerData whose release lock is write-locked;
\* the scope function f starts running.
Scope ==
    /\ spc = "none"
    /\ gw' = TRUE
    /\ spc' = "f"
    /\ UNCHANGED <<mem, hvars, gr, wg, grefs, gfinished, cpc, sarg, sptr, spinned,
                   swpc, cres>>

\* Pinner.Pin, line 98: v.check(). The call panics when the scope has
\* finished; otherwise it goes on to line 99.
PinnerPinLine98(i, a) ==
    /\ cpc[i] = "none"
    /\ IF check(gfinished)
       THEN /\ cpc' = [cpc EXCEPT ![i] = "pin99"]
            /\ sarg' = [sarg EXCEPT ![i] = a]
            /\ UNCHANGED cres
       ELSE /\ cres' = [cres EXCEPT ![i] = Result("Pin", ErrInvalidPinner)]
            /\ UNCHANGED <<cpc, sarg>>
    /\ UNCHANGED <<mem, hvars, spc, gw, gr, wg, grefs, gfinished, sptr, spinned, swpc>>

\* Pinner.Pin called by the scope function f, or by anyone after Scope has
\* returned.
PinnerPinCheck(i, a) ==
    /\ spc \in {"f", "returned"}
    /\ PinnerPinLine98(i, a)

\* Pinner.Pin called by a goroutine that got the Pinner from f and runs on
\* its own, also while Scope is in pinnerData.unpin.
EscapedPinCheck(i, a) ==
    /\ spc # "none"
    /\ PinnerPinLine98(i, a)

\* Faulty variant of PinnerPinGo: v.wg.Add(1) is left out.
PinnerPinGoNoAdd(i) ==
    /\ cpc[i] = "pin99"
    /\ spinned' = [spinned EXCEPT ![i] = TRUE]
    /\ swpc' = [swpc EXCEPT ![i] = "go"]
    /\ cpc' = [cpc EXCEPT ![i] = "pin110"]
    /\ UNCHANGED <<mem, hvars, spc, gw, gr, wg, grefs, gfinished, sarg, sptr, cres>>

\* Pinner.Pin, lines 99-109: the local mutex pinned is locked, v.wg.Add(1),
\* the goroutine is started; the caller is then at line 110.
PinnerPinGo(i) ==
    /\ cpc[i] = "pin99"
    /\ spinned' = [spinned EXCEPT ![i] = TRUE]
    /\ wg' = wg + 1
    /\ swpc' = [swpc EXCEPT ![i] = "go"]
    /\ cpc' = [cpc EXCEPT ![i] = "pin110"]
    /\ UNCHANGED <<mem, hvars, spc, gw, gr, grefs, gfinished, sarg, sptr, cres>>

\* Pinner.Pin, lines 110-111: pinned.Lock() waits for the "pinned" signal,
\* then the ScopedPinnedPtr{ptr, v} is returned.
PinnerPinReturn(i) ==
    /\ cpc[i] = "pin110"
    /\ ~spinned[i]
    /\ spinned' = [spinned EXCEPT ![i] = TRUE]
    /\ sptr' = [sptr EXCEPT ![i] = sarg[i]]
    /\ cpc' = [cpc EXCEPT ![i] = "have"]
    /\ cres' = [cres EXCEPT ![i] = Result("Pin", "ok")]
    /\ UNCHANGED <<mem, hvars, spc, gw, gr, wg, grefs, gfinished, sarg, swpc>>

\* The goroutine of line 106 is scheduled and calls pinUntilRelease2 with
\* uintptr(ptr).
ScopedWorkerEnter(i) ==
    /\ swpc[i] = "go"
    /\ swpc' = [swpc EXCEPT ![i] = "in208"]
    /\ UNCHANGED <<mem, hvars, spc, gw, gr, wg, grefs, gfinished, cpc, sarg, sptr,
                   spinned, cres>>

\* pinUntilRelease2, line 208: pinned.Unlock(), the "pinned" signal.
ScopedWorkerPinned(i) ==
    /\ swpc[i] = "in208"
    /\ spinned[i]
    /\ spinned' = [spinned EXCEPT ![i] = FALSE]
    /\ swpc' = [swpc EXCEPT ![i] = "in209"]
    /\ UNCHANGED <<mem, hvars, spc, gw, gr, wg, grefs, gfinished, cpc, sarg, sptr,
                   cres>>

\* pinUntilRelease2, line 209: release.RLock() succeeds once the write lock
\* is gone; the function returns and the address is no longer held.
ScopedWorkerRelease(i) ==
    /\ swpc[i] = "in209"
    /\ ~gw
    /\ gr' = gr + 1
    /\ swpc' = [swpc EXCEPT ![i] = "ret108"]
    /\ UNCHANGED <<mem, hvars, spc, gw, wg, grefs, gfinished, cpc, sarg, sptr,
                   spinned, cres>>

\* Pinner.Pin's goroutine, line 108: v.wg.Done().
ScopedWorkerDone(i) ==
    /\ swpc[i] = "ret108"
    /\ wg' = wg - 1
    /\ swpc' = [swpc EXCEPT ![i] = "exit"]
    /\ UNCHANGED <<mem, hvars, spc, gw, gr, grefs, gfinished, cpc, sarg, sptr,
                   spinned, cres>>

\* ScopedPinnedPtr.Poke, lines 116-120: pinner.check(), then
\* pinner.poke(pinned.ptr, target).
ScopedPoke(i, s) ==
    /\ cpc[i] = "have"
    /\ spc \in {"f", "returned"}
    /\ IF check(gfinished)
       THEN /\ RefsInUse(NumHandles) < MaxRefs
            /\ grefs' = pokeRefs(grefs, s)
            /\ mem' = pokeMem(mem, sptr[i], s)
            /\ cres' = [cres EXCEPT ![i] = Result("Poke", "ok")]
       ELSE /\ cres' = [cres EXCEPT ![i] = Result("Poke", ErrInvalidPinner)]
            /\ UNCHANGED <<mem, grefs>>
    /\ UNCHANGED <<hvars, spc, gw, gr, wg, gfinished, cpc, sarg, sptr, spinned, swpc>>

\* ScopedPinnedPtr.Poke, line 117, in a goroutine other than the scope's:
\* pinner.check() reads finished with no lock held. A call that passes goes
\* on to line 118 with its target; a call that fails panics.
ScopedPokeLine117(i, s) ==
    /\ cpc[i] = "have"
    /\ ptarget[i] = null
    /\ Len(grefs) + Cardinality({j \in Pins : ptarget[j] # null}) < MaxRefs
    /\ IF check(gfinished)
       THEN /\ ptarget' = [ptarget EXCEPT ![i] = s]
            /\ UNCHANGED cres
       ELSE /\ cres' = [cres EXCEPT ![i] = Result("Poke", ErrInvalidPinner)]
            /\ UNCHANGED ptarget
    /\ UNCHANGED <<mem, hvars, spc, gw, gr, wg, grefs, gfinished, cpc, sarg, sptr,
                   spinned, swpc>>

\* ScopedPinnedPtr.Poke, line 118: pinner.poke(pinned.ptr, target), run
\* before or after the whole of clear().
ScopedPokeLine118(i) ==
    /\ ptarget[i] # null
    /\ grefs' = pokeRefs(grefs, ptarget[i])
    /\ mem' = pokeMem(mem, sptr[i], ptarget[i])
    /\ cres' = [cres EXCEPT ![i] = Result("Poke", "ok")]
    /\ ptarget' = [ptarget EXCEPT ![i] = null]
    /\ UNCHANGED <<hvars, spc, gw, gr, wg, gfinished, cpc, sarg, sptr, spinned, swpc>>

\* Line 118 run while line 148 runs: poke and clear read and write v.refs
\* and the slot with no synchronisation, a data race. The slot ends with the
\* address, or with zero when clear reached it after the store; the list
\* ends nil (clear wrote last), with the new entry alone (append ran on the
\* nil list), or with the old entries and the new one (append read the list
\* before clear dropped it and wrote it back afterwards).
ScopedPokeInClear(i) ==
    /\ ptarget[i] # null
    /\ spc = "unpin148"
    /\ \E v \in {sptr[i]} \cup (IF ptarget[i] \in Range(grefs) THEN {null} ELSE {}) :
          mem' = [clearMem(grefs, mem) EXCEPT ![ptarget[i]] = v]
    /\ grefs' \in {clearRefs(grefs), pokeRefs(clearRefs(grefs), ptarget[i]),
                   pokeRefs(grefs, ptarget[i])}
    /\ cres' = [cres EXCEPT ![i] = Result("Poke", "ok")]
    /\ ptarget' = [ptarget EXCEPT ![i] = null]
    /\ spc' = "unpin149"
    /\ UNCHANGED <<hvars, gw, gr, wg, gfinished, cpc, sarg, sptr, spinned, swpc>>

\* Scope, lines 86-87, and pinnerData.unpin, lines 146-147: f returns once
\* every Pin call made in it has returned; unpin's check() passes (nothing
\* else sets finished) and finished = true.
UnpinnerLine147 ==
    /\ spc = "f"
    /\ check(gfinished)
    /\ gfinished' = TRUE
    /\ spc' = "unpin148"
    /\ UNCHANGED <<mem, hvars, gw, gr, wg, grefs, cpc, sarg, sptr, spinned, swpc, cres>>

\* f returns when every Pin call it made has returned.
UnpinnerCheck ==
    /\ \A i \in Pins : cpc[i] \in {"none", "have"}
    /\ UnpinnerLine147

\* pinnerData.unpin, lines 145-146, called again on a group that has
\* finished (Scope calls it once; only code of the package can call it
\* again): check() panics.
UnpinnerAgain ==
    /\ spc = "returned"
    /\ IF check(gfinished)
       THEN /\ gfinished' = TRUE
            /\ spc' = "unpin148"
            /\ UNCHANGED ures
       ELSE /\ ures' = Result("unpin", ErrInvalidPinner)
            /\ UNCHANGED <<gfinished, spc>>
    /\ UNCHANGED <<mem, hvars, gw, gr, wg, grefs, cpc, sarg, sptr, spinned, swpc, cres,
                   cgocheck, npc, cgocheckOld, alive, zres>>

\* Faulty variant of UnpinnerClear: the list is dropped, the slots are kept.
UnpinnerClearListOnly ==
    /\ spc = "unpin148"
    /\ grefs' = clearRefs(grefs)
    /\ spc' = "unpin149"
    /\ UNCHANGED <<mem, hvars, gw, gr, wg, gfinished, cpc, sarg, sptr, spinned, swpc,
                   cres>>

\* pinnerData.unpin, line 148: v.clear().
UnpinnerClear ==
    /\ spc = "unpin148"
    /\ mem' = clearMem(grefs, mem)
    /\ grefs' = clearRefs(grefs)
    /\ spc' = "unpin149"
    /\ UNCHANGED <<hvars, gw, gr, wg, gfinished, cpc, sarg, sptr, spinned, swpc, cres>>

\* pinnerData.unpin, line 149: v.release.Unlock(), the "release" broadcast.
UnpinnerBroadcast ==
    /\ spc = "unpin149"
    /\ gw
    /\ gw' = FALSE
    /\ spc' = "unpin150"
    /\ UNCHANGED <<mem, hvars, gr, wg, grefs, gfinished, cpc, sarg, sptr, spinned,
                   swpc, cres>>

\* Faulty variant of UnpinnerWait: unpin returns without v.wg.Wait().
UnpinnerNoWait ==
    /\ spc = "unpin150"
    /\ spc' = "returned"
    /\ UNCHANGED <<mem, hvars, gw, gr, wg, grefs, gfinished, cpc, sarg, sptr, spinned,
                   swpc, cres>>

\* pinnerData.unpin, line 150: v.wg.Wait() returns when the counter is zero;
\* unpin and Scope return.
UnpinnerWait ==
    /\ spc = "unpin150"
    /\ wg = 0
    /\ spc' = "returned"
    /\ UNCHANGED <<mem, hvars, gw, gr, wg, grefs, gfinished, cpc, sarg, sptr, spinned,
                   swpc, cres>>

\* ------------------------------------------------------ history updates

\* The history variables follow the program's steps and never guard them.
\* zeroed describes the client's latest call only: a call that runs no clear()
\* resets it.
TrackCall == zeroed' = Zeroed("none", 0, <<>>)

TrackUnpin(h) ==
    zeroed' = IF finished'[h] /\ ~finished[h]
              THEN Zeroed("handle", h, refs[h])
              ELSE Zeroed("none", 0, <<>>)

TrackScopedPoke(i) == gby' = IF Len(grefs') > Len(grefs) THEN Append(gby, i) ELSE gby

TrackUnpinnerReturn == ures' = Result("unpin", "ok")

TrackUnpinnerClear == zeroed' = Zeroed("scope", 0, grefs) /\ gby' = <<>>

TrackScopedPokeInClear(i) ==
    /\ zeroed' = Zeroed("scope", 0, grefs)
    /\ gby' = IF Len(grefs') = 0 THEN <<>>
              ELSE IF Len(grefs') = Len(grefs) + 1 THEN Append(gby, i)
              ELSE <<i>>

\* ---------------------------------------------------------------- NoCheck

\* Faulty variant of NoCheckEnter: the old value is read and cgocheck is
\* left as it is.
NoCheckEnterNoSwap(c) ==
    /\ alive
    /\ npc[c] = "idle"
    /\ cgocheckOld' = [cgocheckOld EXCEPT ![c] = cgocheck]
    /\ npc' = [npc EXCEPT ![c] = "f"]
    /\ UNCHANGED <<mem, hvars, svars, cgocheck, alive, zres, ures>>

\* NoCheck, line 130: cgocheckOld := atomic.SwapInt32(cgocheck, 0); f starts.
NoCheckEnter(c) ==
    /\ alive
    /\ npc[c] = "idle"
    /\ cgocheckOld' = [cgocheckOld EXCEPT ![c] = cgocheck]
    /\ cgocheck' = 0
    /\ npc' = [npc EXCEPT ![c] = "f"]
    /\ UNCHANGED <<mem, hvars, svars, alive, zres, ures>>

\* NoCheck, lines 131-132: f returns; atomic.StoreInt32(cgocheck,
\* cgocheckOld).
NoCheckExit(c) ==
    /\ alive
    /\ npc[c] = "f"
    /\ cgocheck' = cgocheckOld[c]
    /\ npc' = [npc EXCEPT ![c] = "idle"]
    /\ UNCHANGED <<mem, hvars, svars, cgocheckOld, alive, zres, ures>>

\* NoCheck, line 131: f panics. NoCheck has no deferred call, so line 132
\* is skipped and the panic leaves NoCheck for a caller that recovers it;
\* the goroutine makes no further NoCheck call.
NoCheckPanic(c) ==
    /\ alive
    /\ npc[c] = "f"
    /\ npc' = [npc EXCEPT ![c] = "panicked"]
    /\ UNCHANGED <<mem, hvars, svars, cgocheck, cgocheckOld, alive, zres, ures>>

\* Some NoCheck call is running.
NoCheckRunning == \E c \in Callers : npc[c] = "f"

\* History: a call that starts while another one runs overlaps it, and is
\* overlapped by it.
TrackNoCheckEnter(c) ==
    /\ overlapped' = [d \in Callers |->
                         IF d = c THEN NoCheckRunning
                         ELSE overlapped[d] \/ npc[d] = "f"]
    /\ before' = [before EXCEPT ![c] = cgocheck]
    /\ UNCHANGED orig

\* ------------------------------------------------------------ zero values

\* The runtime panic of a selector through a nil pointer.
NilDereference == "runtime error: invalid memory address or nil pointer dereference"

\* The runtime's fatal error of sync.Mutex.Unlock on an unlocked mutex; it
\* cannot be recovered and ends the process.
UnlockOfUnlocked == "fatal error: sync: unlock of unlocked mutex"

\* PinnedPtr.Unpin, lines 58-62, on "var p PinnedPtr", whose fields are the
\* zero values Init gives to a handle index that no Pin has used: check()
\* passes, finished = true, clear() finds no slot, and p.release.Unlock()
\* finds the mutex unlocked.
ZeroValueUnpin(h) ==
    /\ alive
    /\ hpc[h] = "absent"
    /\ IF check(finished[h])
       THEN /\ finished' = [finished EXCEPT ![h] = TRUE]
            /\ mem' = clearMem(refs[h], mem)
            /\ refs' = [refs EXCEPT ![h] = clearRefs(refs[h])]
            /\ IF release[h]
               THEN /\ release' = [release EXCEPT ![h] = FALSE]
                    /\ zres' = Result("PinnedPtr.Unpin", "ok")
                    /\ UNCHANGED alive
               ELSE /\ alive' = FALSE
                    /\ zres' = Result("PinnedPtr.Unpin", UnlockOfUnlocked)
                    /\ UNCHANGED release
       ELSE /\ zres' = Result("PinnedPtr.Unpin", ErrInvalidPinner)
            /\ UNCHANGED <<mem, refs, finished, release, alive>>
    /\ UNCHANGED <<hpc, arg, ptr, pinned, wpc, hres, svars, cgocheck, npc,
                   cgocheckOld, ures>>

\* Pinner.Pin, lines 97-98, on "var pg Pinner": the embedded *pinnerData is
\* nil (lines 68-70), v.check() selects its finishedType through the nil
\* pointer and the runtime panics before check's body runs.
ZeroValuePin(a) ==
    /\ alive
    /\ zres' = Result("Pinner.Pin", NilDereference)
    /\ UNCHANGED <<mem, hvars, svars, cgocheck, npc, cgocheckOld, alive, ures>>

\* ScopedPinnedPtr.Poke, lines 116-117, on "var pp ScopedPinnedPtr": its
\* pinner field is the zero Pinner, and pinned.pinner.check() panics the
\* same way; nothing is stored.
ZeroValuePoke(s) ==
    /\ alive
    /\ zres' = Result("ScopedPinnedPtr.Poke", NilDereference)
    /\ UNCHANGED <<mem, hvars, svars, cgocheck, npc, cgocheckOld, alive, ures>>

\* pinnerData.unpin, lines 145-146, through "var pg Pinner": v is nil and
\* v.check() panics the same way.
ZeroValueFinish ==
    /\ alive
    /\ zres' = Result("pinnerData.unpin", NilDereference)
    /\ UNCHANGED <<mem, hvars, svars, cgocheck, npc, cgocheckOld, alive, ures>>

\* ------------------------------------------------------------ destruction

\* The owner drops its last reference to the PinnedPtr at index h, released
\* or not, or to a value that was never pinned.
Discard(h) ==
    /\ life[h] = "held"
    /\ hpc[h] \in {"absent", "idle"}
    /\ life' = [life EXCEPT ![h] = "discarded"]
    /\ UNCHANGED <<mem, hvars, svars, nvars, pvars, fired>>

\* The destruction hook of a discarded value runs, once: a value that is
\* still pinned at that time is a leak and the leak-detection hook fires.
Finalize(h) ==
    /\ life[h] = "discarded"
    /\ life' = [life EXCEPT ![h] = "finalized"]
    /\ fired' = [fired EXCEPT ![h] =
                    IF hpc[h] = "idle" /\ ~finished[h] THEN fired[h] + 1 ELSE fired[h]]
    /\ UNCHANGED <<mem, hvars, svars, nvars, pvars>>

\* Pin puts a new value at the index: it is held by the caller and the hook
\* has not fired for it.
TrackPin(h) ==
    /\ life' = [life EXCEPT ![h] = "held"]
    /\ fired' = [fired EXCEPT ![h] = 0]

\* ---------------------------------------------------------------- specs

\* Standalone handles, each used by a goroutine of its own.
NextPin ==
    \/ \E h \in Handles, a \in Addrs : Pin(h, a) /\ UNCHANGED <<ghost, other>>
    \/ \E h \in Handles : PinReturn(h) /\ UNCHANGED <<ghost, other>>
    \/ \E h \in Handles : WorkerEnter(h) /\ UNCHANGED <<ghost, other>>
    \/ \E h \in Handles : WorkerPinned(h) /\ UNCHANGED <<ghost, other>>
    \/ \E h \in Handles : WorkerRelease(h) /\ UNCHANGED <<ghost, other>>
    \/ \E h \in Handles : WorkerDone(h) /\ UNCHANGED <<ghost, other>>
    \/ \E h \in Handles, s \in Slots : Poke(h, s) /\ UNCHANGED <<ghost, other>>
    \/ \E h \in Handles : Unpin(h) /\ UNCHANGED <<ghost, other>>
    \/ \E h \in Handles : UnpinSignal(h) /\ UNCHANGED <<ghost, other>>
    \/ \E h \in Handles : UnpinReturn(h) /\ UNCHANGED <<ghost, other>>

SpecPin == Init /\ [][NextPin]_vars

\* One scope whose Pinner is used by several goroutines inside the scope
\* function, and by anyone after Scope has returned.
NextScope ==
    \/ Scope /\ UNCHANGED <<ghost, other>>
    \/ \E i \in Pins, a \in Addrs : PinnerPinCheck(i, a) /\ UNCHANGED <<ghost, other>>
    \/ \E i \in Pins : PinnerPinGo(i) /\ UNCHANGED <<ghost, other>>
    \/ \E i \in Pins : PinnerPinReturn(i) /\ UNCHANGED <<ghost, other>>
    \/ \E i \in Pins : ScopedWorkerEnter(i) /\ UNCHANGED <<ghost, other>>
    \/ \E i \in Pins : ScopedWorkerPinned(i) /\ UNCHANGED <<ghost, other>>
    \/ \E i \in Pins : ScopedWorkerRelease(i) /\ UNCHANGED <<ghost, other>>
    \/ \E i \in Pins : ScopedWorkerDone(i) /\ UNCHANGED <<ghost, other>>
    \/ \E i \in Pins, s \in Slots :
          ScopedPoke(i, s) /\ TrackScopedPoke(i) /\ UNCHANGED <<zeroed, other>>
    \/ UnpinnerCheck /\ UNCHANGED <<ghost, other>>
    \/ UnpinnerClear /\ TrackUnpinnerClear /\ UNCHANGED other
    \/ UnpinnerBroadcast /\ UNCHANGED <<ghost, other>>
    \/ UnpinnerWait /\ UNCHANGED <<ghost, other>>

SpecScope == Init /\ [][NextScope]_vars

\* One client goroutine, as in the package's tests: it works either with
\* standalone handles or with a scope, and starts a call only when no other
\* call of its own is in progress. The restraining goroutines run on their own.
Quiet ==
    /\ \A h \in Handles : hpc[h] \in {"absent", "idle"}
    /\ \A i \in Pins : cpc[i] \in {"none", "have"}
    /\ spc \in {"none", "f", "returned"}

UsesHandles == Quiet /\ spc = "none"

UsesScope == Quiet /\ \A h \in Handles : hpc[h] = "absent"

Next ==
    \/ \E h \in Handles, a \in Addrs :
          UsesHandles /\ Pin(h, a) /\ TrackCall /\ UNCHANGED <<gby, other>>
    \/ \E h \in Handles : PinReturn(h) /\ UNCHANGED <<ghost, other>>
    \/ \E h \in Handles : WorkerEnter(h) /\ UNCHANGED <<ghost, other>>
    \/ \E h \in Handles : WorkerPinned(h) /\ UNCHANGED <<ghost, other>>
    \/ \E h \in Handles : WorkerRelease(h) /\ UNCHANGED <<ghost, other>>
    \/ \E h \in Handles : WorkerDone(h) /\ UNCHANGED <<ghost, other>>
    \/ \E h \in Handles, s \in Slots :
          UsesHandles /\ Poke(h, s) /\ TrackCall /\ UNCHANGED <<gby, other>>
    \/ \E h \in Handles :
          UsesHandles /\ Unpin(h) /\ TrackUnpin(h) /\ UNCHANGED <<gby, other>>
    \/ \E h \in Handles : UnpinSignal(h) /\ UNCHANGED <<ghost, other>>
    \/ \E h \in Handles : UnpinReturn(h) /\ UNCHANGED <<ghost, other>>
    \/ UsesScope /\ Scope /\ TrackCall /\ UNCHANGED <<gby, other>>
    \/ \E i \in Pins, a \in Addrs :
          UsesScope /\ PinnerPinCheck(i, a) /\ TrackCall /\ UNCHANGED <<gby, other>>
    \/ \E i \in Pins : PinnerPinGo(i) /\ UNCHANGED <<ghost, other>>
    \/ \E i \in Pins : PinnerPinReturn(i) /\ UNCHANGED <<ghost, other>>
    \/ \E i \in Pins : ScopedWorkerEnter(i) /\ UNCHANGED <<ghost, other>>
    \/ \E i \in Pins : ScopedWorkerPinned(i) /\ UNCHANGED <<ghost, other>>
    \/ \E i \in Pins : ScopedWorkerRelease(i) /\ UNCHANGED <<ghost, other>>
    \/ \E i \in Pins : ScopedWorkerDone(i) /\ UNCHANGED <<ghost, other>>
    \/ \E i \in Pins, s \in Slots :
          UsesScope /\ ScopedPoke(i, s) /\ TrackScopedPoke(i) /\ TrackCall /\ UNCHANGED other
    \/ UsesScope /\ UnpinnerCheck /\ UNCHANGED <<ghost, other>>
    \/ UnpinnerClear /\ TrackUnpinnerClear /\ UNCHANGED other
    \/ UnpinnerBroadcast /\ UNCHANGED <<ghost, other>>
    \/ UnpinnerWait /\ UNCHANGED <<ghost, other>>

Spec == Init /\ [][Next]_vars

\* The process as a whole: goroutines that call NoCheck, and calls on values
\* that were never initialized.
NextProcess ==
    \/ \E c \in Callers :
          NoCheckEnter(c) /\ TrackNoCheckEnter(c) /\ UNCHANGED <<ghost, lvars, pvars>>
    \/ \E c \in Callers : NoCheckExit(c) /\ UNCHANGED <<ghost, nhist, lvars, pvars>>
    \/ \E c \in Callers : NoCheckPanic(c) /\ UNCHANGED <<ghost, nhist, lvars, pvars>>
    \/ \E h \in Handles : ZeroValueUnpin(h) /\ UNCHANGED <<ghost, nhist, lvars, pvars>>
    \/ \E a \in Addrs : ZeroValuePin(a) /\ UNCHANGED <<ghost, nhist, lvars, pvars>>
    \/ \E s \in Slots : ZeroValuePoke(s) /\ UNCHANGED <<ghost, nhist, lvars, pvars>>
    \/ ZeroValueFinish /\ UNCHANGED <<ghost, nhist, lvars, pvars>>

SpecProcess == InitAnyCgocheck /\ [][NextProcess]_vars

\* A Pinner that escapes the scope function: goroutines started by f call
\* Pin on it while Scope goes on to pinnerData.unpin, and code of the package
\* calls unpin again.
NextEscaped ==
    \/ Scope /\ UNCHANGED <<ghost, other>>
    \/ \E i \in Pins, a \in Addrs : EscapedPinCheck(i, a) /\ UNCHANGED <<ghost, other>>
    \/ \E i \in Pins : PinnerPinGo(i) /\ UNCHANGED <<ghost, other>>
    \/ \E i \in Pins : PinnerPinReturn(i) /\ UNCHANGED <<ghost, other>>
    \/ \E i \in Pins : ScopedWorkerEnter(i) /\ UNCHANGED <<ghost, other>>
    \/ \E i \in Pins : ScopedWorkerPinned(i) /\ UNCHANGED <<ghost, other>>
    \/ \E i \in Pins : ScopedWorkerRelease(i) /\ UNCHANGED <<ghost, other>>
    \/ \E i \in Pins : ScopedWorkerDone(i) /\ UNCHANGED <<ghost, other>>
    \/ \E i \in Pins, s \in Slots :
          ScopedPoke(i, s) /\ TrackScopedPoke(i) /\ UNCHANGED <<zeroed, other>>
    \/ UnpinnerLine147 /\ UNCHANGED <<ghost, other>>
    \/ UnpinnerClear /\ TrackUnpinnerClear /\ UNCHANGED other
    \/ UnpinnerBroadcast /\ UNCHANGED <<ghost, other>>
    \/ /\ UnpinnerWait /\ TrackUnpinnerReturn
       /\ UNCHANGED <<ghost, nhist, lvars, pvars, cgocheck, npc, cgocheckOld, alive, zres>>
    \/ UnpinnerAgain /\ UNCHANGED <<ghost, nhist, lvars, pvars>>

SpecEscaped == Init /\ [][NextEscaped]_vars

\* One client goroutine that pins and unpins standalone handles and may drop
\* any of them at any time; the runtime finalizes dropped values. No call is
\* made on a value that was dropped.
NextLeak ==
    \/ \E h \in Handles, a \in Addrs :
          /\ UsesHandles /\ life[h] # "discarded"
          /\ Pin(h, a) /\ TrackPin(h)
          /\ UNCHANGED <<ghost, nvars, nhist, pvars>>
    \/ \E h \in Handles : PinReturn(h) /\ UNCHANGED <<ghost, other>>
    \/ \E h \in Handles : WorkerEnter(h) /\ UNCHANGED <<ghost, other>>
    \/ \E h \in Handles : WorkerPinned(h) /\ UNCHANGED <<ghost, other>>
    \/ \E h \in Handles : WorkerRelease(h) /\ UNCHANGED <<ghost, other>>
    \/ \E h \in Handles : WorkerDone(h) /\ UNCHANGED <<ghost, other>>
    \/ \E h \in Handles :
          /\ UsesHandles /\ life[h] = "held"
          /\ Unpin(h) /\ UNCHANGED <<ghost, other>>
    \/ \E h \in Handles : UnpinSignal(h) /\ UNCHANGED <<ghost, other>>
    \/ \E h \in Handles : UnpinReturn(h) /\ UNCHANGED <<ghost, other>>
    \/ \E h \in Handles : UsesHandles /\ Discard(h) /\ UNCHANGED <<ghost, nhist>>
    \/ \E h \in Handles : Finalize(h) /\ UNCHANGED <<ghost, nhist>>

SpecLeak == Init /\ [][NextLeak]_vars

\* One scope whose handles are also used for Poke by goroutines that f
\* started and did not wait for: their calls run beside pinnerData.unpin.
NextPokeRace ==
    \/ Scope /\ UNCHANGED <<ghost, other>>
    \/ \E i \in Pins, a \in Addrs : PinnerPinCheck(i, a) /\ UNCHANGED <<ghost, other>>
    \/ \E i \in Pins : PinnerPinGo(i) /\ UNCHANGED <<ghost, other>>
    \/ \E i \in Pins : PinnerPinReturn(i) /\ UNCHANGED <<ghost, other>>
    \/ \E i \in Pins : ScopedWorkerEnter(i) /\ UNCHANGED <<ghost, other>>
    \/ \E i \in Pins : ScopedWorkerPinned(i) /\ UNCHANGED <<ghost, other>>
    \/ \E i \in Pins : ScopedWorkerRelease(i) /\ UNCHANGED <<ghost, other>>
    \/ \E i \in Pins : ScopedWorkerDone(i) /\ UNCHANGED <<ghost, other>>
    \/ \E i \in Pins, s \in Slots :
          ScopedPokeLine117(i, s) /\ UNCHANGED <<ghost, nvars, nhist, lvars>>
    \/ \E i \in Pins :
          /\ ScopedPokeLine118(i) /\ TrackScopedPoke(i)
          /\ UNCHANGED <<zeroed, nvars, nhist, lvars>>
    \/ \E i \in Pins :
          /\ ScopedPokeInClear(i) /\ TrackScopedPokeInClear(i)
          /\ UNCHANGED <<nvars, nhist, lvars>>
    \/ UnpinnerCheck /\ UNCHANGED <<ghost, other>>
    \/ UnpinnerClear /\ TrackUnpinnerClear /\ UNCHANGED other
    \/ UnpinnerBroadcast /\ UNCHANGED <<ghost, other>>
    \/ UnpinnerWait /\ UNCHANGED <<ghost, other>>

SpecPokeRace == Init /\ [][NextPokeRace]_vars

\* The handshakes alone, with no Poke: goroutines that pin and unpin
\* standalone handles, or one scope whose Pinner.Pin calls run concurrently.
NextHandshake ==
    \/ \E h \in Handles, a \in Addrs :
          spc = "none" /\ Pin(h, a) /\ UNCHANGED <<ghost, other>>
    \/ \E h \in Handles : PinReturn(h) /\ UNCHANGED <<ghost, other>>
    \/ \E h \in Handles : WorkerEnter(h) /\ UNCHANGED <<ghost, other>>
    \/ \E h \in Handles : WorkerPinned(h) /\ UNCHANGED <<ghost, other>>
    \/ \E h \in Handles : WorkerRelease(h) /\ UNCHANGED <<ghost, other>>
    \/ \E h \in Handles : WorkerDone(h) /\ UNCHANGED <<ghost, other>>
    \/ \E h \in Handles : Unpin(h) /\ UNCHANGED <<ghost, other>>
    \/ \E h \in Handles : UnpinSignal(h) /\ UNCHANGED <<ghost, other>>
    \/ \E h \in Handles : UnpinReturn(h) /\ UNCHANGED <<ghost, other>>
    \/ (\A h \in Handles : hpc[h] = "absent") /\ Scope /\ UNCHANGED <<ghost, other>>
    \/ \E i \in Pins, a \in Addrs : PinnerPinCheck(i, a) /\ UNCHANGED <<ghost, other>>
    \/ \E i \in Pins : PinnerPinGo(i) /\ UNCHANGED <<ghost, other>>
    \/ \E i \in Pins : PinnerPinReturn(i) /\ UNCHANGED <<ghost, other>>
    \/ \E i \in Pins : ScopedWorkerEnter(i) /\ UNCHANGED <<ghost, other>>
    \/ \E i \in Pins : ScopedWorkerPinned(i) /\ UNCHANGED <<ghost, other>>
    \/ \E i \in Pins : ScopedWorkerRelease(i) /\ UNCHANGED <<ghost, other>>
    \/ \E i \in Pins : ScopedWorkerDone(i) /\ UNCHANGED <<ghost, other>>
    \/ UnpinnerCheck /\ UNCHANGED <<ghost, other>>
    \/ UnpinnerClear /\ TrackUnpinnerClear /\ UNCHANGED other
    \/ UnpinnerBroadcast /\ UNCHANGED <<ghost, other>>
    \/ UnpinnerWait /\ UNCHANGED <<ghost, other>>

\* The steps a goroutine takes on its own once its call has started: the
\* rest of Pin and of Unpin for the goroutine using handle h, ...
CallerRuns(h) ==
    (PinReturn(h) \/ UnpinSignal(h) \/ UnpinReturn(h)) /\ UNCHANGED <<ghost, other>>

\* ... the goroutine started by Pin for handle h, ...
WorkerRuns(h) ==
    (WorkerEnter(h) \/ WorkerPinned(h) \/ WorkerRelease(h) \/ WorkerDone(h))
        /\ UNCHANGED <<ghost, other>>

\* ... the rest of Pinner.Pin for the goroutine making the call i, ...
PinnerCallerRuns(i) ==
    (PinnerPinGo(i) \/ PinnerPinReturn(i)) /\ UNCHANGED <<ghost, other>>

\* ... the goroutine started by Pinner.Pin for the call i, ...
ScopedWorkerRuns(i) ==
    (ScopedWorkerEnter(i) \/ ScopedWorkerPinned(i) \/ ScopedWorkerRelease(i)
        \/ ScopedWorkerDone(i)) /\ UNCHANGED <<ghost, other>>

\* ... and the rest of pinnerData.unpin once f has returned.
UnpinnerRuns ==
    \/ UnpinnerClear /\ TrackUnpinnerClear /\ UNCHANGED other
    \/ (UnpinnerBroadcast \/ UnpinnerWait) /\ UNCHANGED <<ghost, other>>

\* The Go scheduler runs every goroutine that can run. Starting a call
\* (Pin, Unpin, Scope, Pinner.Pin) and the return of f are up to the program.
FairScheduling ==
    /\ \A h \in Handles : WF_vars(CallerRuns(h)) /\ WF_vars(WorkerRuns(h))
    /\ \A i \in Pins : WF_vars(PinnerCallerRuns(i)) /\ WF_vars(ScopedWorkerRuns(i))
    /\ WF_vars(UnpinnerRuns)

SpecHandshake == Init /\ [][NextHandshake]_vars /\ FairScheduling

\* --------------------------------------------------------------- claims

\* The PinnedPtr at index h is pinned: Pin has returned and Unpin has not
\* been called on it.
Pinned(h) == hpc[h] = "idle" /\ ~finished[h]

\* Unpin has returned on the PinnedPtr at index h.
Unpinned(h) == hpc[h] = "idle" /\ finished[h]

\* The goroutine started by Pin is inside pinUntilRelease and has sent the
\* "pinned" signal; it waits at release.Lock().
Parked(h) == wpc[h] = "in202"

\* C1: once Pin has returned, whatever the caller does next, the goroutine
\* started for that pin has entered pinUntilRelease and passed its
\* pinned.Unlock(): Pin never returns while the goroutine is not yet started
\* or is still before the "pinned" signal.
C1_PinReturnsAfterPinned ==
    \A h \in Handles :
        hpc[h] \in {"idle", "unpin62", "unpin63"} => wpc[h] \in {"in202", "ret41", "exit"}

\* Pin has just returned on a handle and its goroutine is parked.
C1_Witness ==
    \E h \in Handles :
        /\ hpc[h] = "idle"
        /\ hres[h] = Result("Pin", "ok")
        /\ ptr[h] \in Addrs
        /\ Parked(h)

\* C2: from Pin's return until Unpin sends the release signal, the goroutine
\* of the handle is parked inside pinUntilRelease at release.Lock(), and the
\* release lock is held: it has neither returned nor exited.
C2_ParkedWhilePinned ==
    \A h \in Handles :
        (Pinned(h) \/ hpc[h] = "unpin62") => (Parked(h) /\ release[h])

\* A pinned handle that has already been poked, between Pin and Unpin.
C2_Witness ==
    \E h \in Handles : Pinned(h) /\ refs[h] # <<>> /\ Parked(h)

\* C3: once Unpin has returned, the goroutine of the handle has taken the
\* release lock, left pinUntilRelease and sent the "released" signal
\* (p.pinned.Unlock() of line 41): it has exited.
C3_UnpinReturnsAfterReleased ==
    \A h \in Handles : Unpinned(h) => wpc[h] = "exit"

\* Unpin has just returned on a handle.
C3_Witness ==
    \E h \in Handles :
        Unpinned(h) /\ hres[h] = Result("Unpin", "ok") /\ wpc[h] = "exit"

\* C4: every slot that a handle's Unpin found recorded reads zero from the
\* clear() on, in particular when Unpin returns; and in every state of every
\* sequence of Pin, Poke and Unpin calls a slot that does not read zero is
\* recorded for a handle that is still pinned and holds that handle's address
\* (no slot keeps the address of a released handle).
C4_UnpinZeroesSlots ==
    /\ zeroed.kind = "handle" => \A s \in zeroed.slots : mem[s] = null
    /\ spc = "none" =>
          \A s \in Slots :
              mem[s] # null =>
                  \E h \in Handles : Pinned(h) /\ s \in Range(refs[h]) /\ mem[s] = ptr[h]

\* Unpin has returned on a handle through which two distinct slots had been
\* poked.
C4_Witness ==
    \E h \in Handles :
        /\ Unpinned(h)
        /\ hres[h] = Result("Unpin", "ok")
        /\ zeroed.kind = "handle" /\ zeroed.id = h
        /\ Cardinality(zeroed.slots) >= 2
        /\ \A s \in zeroed.slots : mem[s] = null

\* The ScopedPinnedPtr at index i is pinned: Pinner.Pin has returned it and
\* the scope has not finished.
ScopedPinned(i) == cpc[i] = "have" /\ ~gfinished

\* C5: for every handle that is pinned, PinnedPtr or ScopedPinnedPtr, every
\* slot recorded for it by Poke holds that handle's pinned address, also when
\* two live handles poke the same slot and one of them is released. The code
\* does not keep this: a second handle's Poke overwrites the slot, and the
\* release of either handle zeroes it under the other one.
C5_RecordedSlotsHoldAddress ==
    /\ \A h \in Handles :
          Pinned(h) => \A s \in Range(refs[h]) : mem[s] = ptr[h]
    /\ \A k \in 1..Len(grefs) :
          (k <= Len(gby) /\ ScopedPinned(gby[k])) => mem[grefs[k]] = sptr[gby[k]]

\* A worker of the scope has left pinUntilRelease2.
ScopedLeft(i) == swpc[i] \in {"ret108", "exit"}

\* A worker of the scope is started and has not exited.
ScopedHolding(i) == swpc[i] \in {"go", "in208", "in209", "ret108"}

\* C6: until pinnerData.unpin has performed the release broadcast (line
\* 149), no worker started by Pinner.Pin has left pinUntilRelease2, and the
\* worker of every pointer that Pinner.Pin has returned is parked in it at
\* release.RLock().
C6_RestrainedUntilBroadcast ==
    spc \in {"f", "unpin148", "unpin149"} =>
        \A i \in Pins :
            /\ ~ScopedLeft(i)
            /\ cpc[i] = "have" => swpc[i] = "in209"

\* The scope function has returned with NumPins pins, unpin is about to
\* broadcast, and every worker is still parked.
C6_Witness ==
    /\ spc = "unpin149"
    /\ \A i \in Pins : cpc[i] = "have" /\ swpc[i] = "in209"

\* C7: pinnerData.unpin, and with it Scope, has returned only when every
\* worker of the scope has exited; while a worker is still holding, the
\* WaitGroup counter is positive and v.wg.Wait() blocks.
C7_FinishWaitsForAll ==
    /\ spc = "returned" => \A i \in Pins : swpc[i] \in {"none", "exit"}
    /\ (\E i \in Pins : ScopedHolding(i)) => wg > 0 /\ spc # "returned"

\* Scope has returned after NumPins workers exited.
C7_Witness ==
    /\ spc = "returned"
    /\ \A i \in Pins : swpc[i] = "exit"
    /\ wg = 0

\* After the broadcast one worker has exited and another still holds: unpin
\* is blocked in v.wg.Wait().
C7_WitnessPartial ==
    /\ spc = "unpin150"
    /\ \E i, j \in Pins : swpc[i] = "exit" /\ swpc[j] = "in209"
    /\ wg = 1

\* C8: from unpin's clear() on, and so when Scope has returned, every slot
\* that was poked through a ScopedPinnedPtr of the scope reads zero; the
\* scope's list of recorded slots is empty and no slot at all keeps an
\* address of the scope.
C8_ScopeZeroesSlots ==
    /\ zeroed.kind = "scope" => \A s \in zeroed.slots : mem[s] = null
    /\ spc = "returned" => grefs = <<>> /\ \A s \in Slots : mem[s] = null

\* Scope has returned after two distinct slots were poked in it.
C8_Witness ==
    /\ spc = "returned"
    /\ zeroed.kind = "scope"
    /\ Cardinality(zeroed.slots) >= 2
    /\ \A s \in zeroed.slots : mem[s] = null

\* C9: once Scope has returned, no step starts a worker or writes a slot, and
\* every call of Pinner.Pin or ScopedPinnedPtr.Poke that completes panics
\* with ErrInvalidPinner.
C9_FinishedScopeRejects ==
    [][spc = "returned" =>
          /\ mem' = mem /\ grefs' = grefs
          /\ wg' = wg /\ swpc' = swpc /\ spinned' = spinned
          /\ \A i \in Pins :
                /\ cpc'[i] = cpc[i]
                /\ cres'[i] # cres[i] =>
                      cres'[i] \in {Result("Pin", ErrInvalidPinner),
                                    Result("Poke", ErrInvalidPinner)}]_vars

\* After Scope returned, Pin was called on the Pinner and Poke on a
\* ScopedPinnedPtr obtained in the scope; both panicked.
C9_Witness ==
    /\ spc = "returned"
    /\ \E i, j \in Pins :
          /\ cpc[i] = "none" /\ cres[i] = Result("Pin", ErrInvalidPinner)
          /\ cpc[j] = "have" /\ cres[j] = Result("Poke", ErrInvalidPinner)
    /\ \A s \in Slots : mem[s] = null

\* C10: once Unpin has been called on a PinnedPtr (finished is set), a Poke
\* on that handle records no slot, leaves the memory alone and panics with
\* ErrInvalidPinner.
C10_PokeAfterUnpinPanics ==
    [][\A h \in Handles :
          (finished[h] /\ finished'[h]) =>
              /\ refs'[h] = <<>>
              /\ (hres'[h] # hres[h] /\ hres'[h].op = "Poke") =>
                    hres'[h].res = ErrInvalidPinner /\ mem' = mem]_vars

\* Poke was called on a handle after its Unpin had returned, and panicked.
C10_Witness ==
    \E h \in Handles :
        /\ Unpinned(h)
        /\ hres[h] = Result("Poke", ErrInvalidPinner)
        /\ refs[h] = <<>>

\* C11: calling Unpin again on a handle whose Unpin has returned does not
\* panic and changes nothing: the call completes normally, the slots stay
\* zero and the goroutine stays exited. The code does not keep this: the
\* check() of line 59 panics with ErrInvalidPinner on every repeated Unpin.
C11_UnpinIdempotent ==
    [][\A h \in Handles :
          (Unpinned(h) /\ hres'[h] # hres[h] /\ hres'[h].op = "Unpin") =>
              /\ hres'[h].res = "ok"
              /\ mem' = mem
              /\ wpc'[h] = "exit"]_vars

\* C20: after the scope's finish has completed, a Pin on the same Pinner
\* succeeds and starts a new pinning lifetime. The code does not keep this:
\* finished is never reset, so every later Pin panics with ErrInvalidPinner
\* at line 98 and starts no worker.
C20_PinnerReusable ==
    [][\A i \in Pins :
          (spc = "returned" /\ cres'[i] # cres[i] /\ cres'[i].op = "Pin") =>
              cres'[i].res = "ok"]_vars

\* C12: releasing a value that was never pinned is a safe no-op: Unpin on a
\* zero PinnedPtr, or the finish of a zero Pinner, completes normally and the
\* process goes on. The code does not keep this: Unpin unlocks the unlocked
\* release mutex, which is a fatal error, and the finish of a zero Pinner
\* dereferences nil.
C12_ReleaseOfNeverPinned ==
    /\ alive
    /\ zres.op \in {"PinnedPtr.Unpin", "pinnerData.unpin"} => zres.res = "ok"

\* C14: Pin on a zero Pinner and Poke on a zero ScopedPinnedPtr panic with
\* exactly ErrInvalidPinner. The code does not keep this: both panic with the
\* runtime's nil pointer dereference.
C14_ZeroValuePanicsInvalidPinner ==
    zres.op \in {"Pinner.Pin", "ScopedPinnedPtr.Poke"} => zres.res = ErrInvalidPinner

\* C15: a NoCheck call that no other NoCheck call overlaps keeps cgocheck at
\* 0 from its entry until f returns, and its return leaves cgocheck at the
\* value it had right before the call.
C15_NoCheckAlone ==
    [][\A c \in Callers :
          /\ (npc'[c] = "f" /\ ~overlapped'[c]) => cgocheck' = 0
          /\ (npc[c] = "f" /\ npc'[c] = "idle" /\ ~overlapped[c]) =>
                cgocheck' = before[c]]_vars

\* A NoCheck call that ran alone has returned and the checker is enabled
\* again, as it was before the call.
C15_Witness ==
    \E c \in Callers :
        /\ npc[c] = "idle" /\ ~overlapped[c]
        /\ before[c] # 0
        /\ cgocheck = before[c]
        /\ \A d \in Callers : npc[d] = "idle"

\* C16: cgocheck is 0 in every state in which some NoCheck call is running.
\* The code does not keep this: the call that exits first stores its old
\* value while the other one is still running.
C16_DisabledWhileAnyRuns ==
    NoCheckRunning => cgocheck = 0

\* C17: when every NoCheck call has returned, cgocheck holds the value it had
\* before the first of them. The code does not keep this: a call that enters
\* while another runs records 0 as the value to restore.
C17_RestoredAfterAll ==
    (\A c \in Callers : npc[c] = "idle") => cgocheck = orig

\* C13: running the finish again on a group that has finished does not
\* panic, does not unlock the release lock again and leaves the group as it
\* is. The code keeps the last two and not the first: check() panics with
\* ErrInvalidPinner.
C13_FinishIdempotent ==
    [][(spc = "returned" /\ ures' # ures) =>
          /\ ures' = Result("unpin", "ok")
          /\ UNCHANGED <<mem, gw, gr, wg, grefs, gfinished, swpc>>]_vars

\* C18: once the finish has set finished, no Pin call is accepted: no worker
\* is started, and a Pin call that completes afterwards was either started
\* before the finish and is drained by it, or panics with ErrInvalidPinner.
\* The code does not keep this: a Pin that passed check() at line 98 before
\* finished was set goes on to wg.Add(1) and starts its worker afterwards.
C18_NoPinAcceptedAfterFinish ==
    [][gfinished =>
          \A i \in Pins :
              /\ swpc'[i] = "go" => swpc[i] = "go"
              /\ wg' <= wg]_vars

\* The goroutine of the handle still restrains its address.
Restraining(h) == wpc[h] \in {"go", "in201", "in202"}

Signalled(h) == hpc[h] = "unpin63" \/ wpc[h] \in {"ret41", "exit"}

\* pinnerData.unpin has sent the release broadcast (line 149), or a worker of
\* the scope has already taken the read lock.
Broadcast == spc \in {"unpin150", "returned"} \/ \E i \in Pins : ScopedLeft(i)

\* C21: the slots are zeroed before the release signal is sent. Once Unpin
\* has unlocked release, or the goroutine of the handle has been woken, the
\* handle's list is empty and every slot that Unpin found recorded reads
\* zero; the same for pinnerData.unpin and its broadcast.
C21_ZeroedBeforeSignal ==
    /\ \A h \in Handles :
          Signalled(h) =>
              /\ refs[h] = <<>>
              /\ (zeroed.kind = "handle" /\ zeroed.id = h) =>
                    \A s \in zeroed.slots : mem[s] = null
    /\ Broadcast =>
          /\ grefs = <<>>
          /\ zeroed.kind = "scope" => \A s \in zeroed.slots : mem[s] = null

\* Unpin has just sent the release signal of a handle that had a slot
\* recorded, and the goroutine has been woken.
C21_Witness ==
    \E h \in Handles :
        /\ hpc[h] = "unpin63" /\ wpc[h] = "ret41"
        /\ zeroed.kind = "handle" /\ zeroed.id = h
        /\ zeroed.slots # {}

\* A worker of the scope is started and has not returned from
\* pinUntilRelease2.
ScopedInside(i) == swpc[i] \in {"go", "in208", "in209"}

\* C22 as stated: the WaitGroup counter equals the number of registered
\* workers that have not returned from pinUntilRelease2, and is never
\* negative. The code does not keep the equality: a worker that has returned
\* from pinUntilRelease2 (line 107) and has not yet run v.wg.Done() (line
\* 108) is still counted.
C22_PendingEqualsInside ==
    /\ wg = Cardinality({i \in Pins : ScopedInside(i)})
    /\ wg >= 0

\* C22 as amended: the WaitGroup counter equals the number of registered
\* workers that have not yet run v.wg.Done(), so it is at least the number of
\* workers still inside pinUntilRelease2 and never negative; and a worker
\* that has left pinUntilRelease2 has observed the release broadcast.
C22_PendingCountsUndone ==
    /\ wg = Cardinality({i \in Pins : ScopedHolding(i)})
    /\ wg >= Cardinality({i \in Pins : ScopedInside(i)})
    /\ wg >= 0
    /\ \A i \in Pins : ScopedLeft(i) => (~gw /\ spc \in {"unpin150", "returned"})

\* After the broadcast one worker has run Done, one has returned from
\* pinUntilRelease2 and is still counted.
C22_Witness ==
    \E i, j \in Pins :
        /\ swpc[i] = "exit" /\ swpc[j] = "ret108"
        /\ wg = 1

\* C23: with every goroutine scheduled fairly, a Pin call that has started
\* returns, an Unpin call that has started on a pinned handle returns, a
\* Pinner.Pin call that has started returns, and Scope returns once its
\* function has returned, whatever the number of pins made through it.
C23_CallsReturn ==
    /\ \A h \in Handles :
          /\ (hpc[h] = "pin43") ~> (hpc[h] = "idle" /\ hres[h] = Result("Pin", "ok"))
          /\ (hpc[h] = "unpin62") ~> (hpc[h] = "idle" /\ hres[h] = Result("Unpin", "ok"))
    /\ \A i \in Pins : (cpc[i] = "pin99") ~> (cpc[i] = "have")
    /\ (spc = "unpin148") ~> (spc = "returned")

\* Scope has returned after f made every Pinner.Pin call it can make.
C23_Witness == spc = "returned" /\ \A i \in Pins : swpc[i] = "exit"

\* C24: a ScopedPinnedPtr.Poke that runs beside the scope's finish either
\* records its slot before the clearing pass, so that the slot is zero when
\* finish returns, or fails; once finish has returned no slot holds a pinned
\* address.
C24_NoAddressAfterFinish == spc = "returned" => \A s \in Slots : mem[s] = null

\* C25: a Poke that fails the validity check, through a released handle or
\* through a handle of a finished scope, changes nothing but the outcome the
\* caller sees: every slot keeps its content, no slot list grows, and no
\* lock, flag, counter or worker changes.
C25_FailedPokeChangesNothing ==
    [][/\ \A h \in Handles :
             (hres'[h] # hres[h] /\ hres'[h] = Result("Poke", ErrInvalidPinner)) =>
                 /\ UNCHANGED <<mem, hpc, arg, ptr, release, pinned, refs, finished, wpc>>
                 /\ UNCHANGED svars
                 /\ \A k \in Handles \ {h} : hres'[k] = hres[k]
       /\ \A i \in Pins :
             (cres'[i] # cres[i] /\ cres'[i] = Result("Poke", ErrInvalidPinner)) =>
                 /\ UNCHANGED <<mem, hvars>>
                 /\ UNCHANGED <<spc, gw, gr, wg, grefs, gfinished, cpc, sarg, sptr,
                                spinned, swpc>>
                 /\ \A k \in Pins \ {i} : cres'[k] = cres[k]
      ]_vars

\* A Poke through a released handle has failed while a slot holds the
\* address poked through another handle, which is still pinned.
C25_Witness ==
    \E h, k \in Handles :
        /\ hres[h] = Result("Poke", ErrInvalidPinner)
        /\ Pinned(k) /\ refs[k] # <<>>
        /\ \E s \in Slots : mem[s] = ptr[k] /\ mem[s] # null

\* C26: a slot poked more than once through one handle, or through the
\* handles of one scope, is on the list once per Poke; the release that
\* finds such a list leaves every slot of it zero and the list empty, and
\* it completes without error.
C26_DuplicateSlotsHarmless ==
    /\ \A h \in Handles :
          (/\ zeroed.kind = "handle" /\ zeroed.id = h
           /\ zeroed.records > Cardinality(zeroed.slots)) =>
              /\ finished[h]
              /\ refs[h] = <<>>
              /\ \A s \in zeroed.slots : mem[s] = null
              /\ hpc[h] \in {"unpin62", "unpin63", "idle"}
              /\ hpc[h] = "idle" => hres[h] = Result("Unpin", "ok")
    /\ (zeroed.kind = "scope" /\ zeroed.records > Cardinality(zeroed.slots)) =>
          /\ gfinished
          /\ grefs = <<>>
          /\ \A s \in zeroed.slots : mem[s] = null
          /\ spc \in {"unpin149", "unpin150", "returned"}

\* Unpin has returned after clearing a list that held one slot twice.
C26_Witness ==
    \E h \in Handles :
        /\ zeroed.kind = "handle" /\ zeroed.id = h
        /\ zeroed.records = 2 /\ Cardinality(zeroed.slots) = 1
        /\ hpc[h] = "idle" /\ hres[h] = Result("Unpin", "ok")
        /\ wpc[h] = "exit"

\* C27: when f panics inside a NoCheck call that no other NoCheck call
\* overlaps, cgocheck has, once the panic has left NoCheck, the value it had
\* right before the call.
C27_RestoredAfterPanic ==
    [][\A c \in Callers :
          (npc[c] = "f" /\ npc'[c] = "panicked" /\ ~overlapped[c]) =>
              cgocheck' = before[c]]_vars

\* A step of PinnedPtr.Unpin on the handle at index h.
UnpinStep(h) ==
    \/ hpc[h] = "idle" /\ hpc'[h] = "unpin62"
    \/ hpc[h] = "unpin62" /\ hpc'[h] = "unpin63"
    \/ hpc[h] = "unpin63" /\ hpc'[h] = "idle"

\* C28: a step of Unpin on a handle changes no slot but those recorded
\* through it, and leaves every other handle as it is: its worker where it
\* was (parked, if the handle is pinned), its two locks, its finished flag
\* and its slot list unchanged.
C28_UnpinTouchesOwnHandleOnly ==
    [][hpc' # hpc => \A h \in Handles :
          UnpinStep(h) =>
              /\ \A s \in Slots : mem'[s] # mem[s] => s \in Range(refs[h])
              /\ \A k \in Handles \ {h} :
                    /\ wpc'[k] = wpc[k]
                    /\ release'[k] = release[k]
                    /\ pinned'[k] = pinned[k]
                    /\ finished'[k] = finished[k]
                    /\ refs'[k] = refs[k]
                    /\ hpc'[k] = hpc[k]]_vars

\* Unpin has returned on one handle, whose worker has exited and whose slot
\* was zeroed, while another handle is pinned with its worker parked, its
\* release lock held and its slot still holding its address.
C28_Witness ==
    \E h, k \in Handles :
        /\ Unpinned(h) /\ wpc[h] = "exit" /\ hres[h] = Result("Unpin", "ok")
        /\ Pinned(k) /\ Parked(k) /\ release[k]
        /\ refs[k] # <<>> /\ mem[refs[k][1]] = ptr[k]
        /\ \E s \in Slots : mem[s] = null

\* C29: every Pin call has a worker of its own, so an address is held in
\* pinUntilRelease by at least as many workers as there are pinned handles
\* for it, and in pinUntilRelease2 by at least as many workers as the
\* unfinished scope has handles for it: releasing one handle of an address,
\* in whatever order, leaves the address held for the others.
C29_OneWorkerPerPin ==
    \A a \in Addrs :
        /\ Cardinality({h \in Handles : Pinned(h) /\ ptr[h] = a})
              <= Cardinality({h \in Handles : Parked(h) /\ arg[h] = a})
        /\ Cardinality({i \in Pins : ScopedPinned(i) /\ sptr[i] = a})
              <= Cardinality({i \in Pins : swpc[i] = "in209" /\ sarg[i] = a})

\* Two handles pinned the same address; one has been released and its
\* worker has exited, the other is pinned and its worker holds the address.
C29_Witness ==
    \E h, k \in Handles :
        /\ h # k /\ ptr[h] = ptr[k] /\ ptr[h] # null
        /\ Unpinned(h) /\ wpc[h] = "exit"
        /\ Pinned(k) /\ Parked(k) /\ arg[k] = ptr[k]

====
